---------------------------- MODULE Spec2Model ----------------------------
(***************************************************************************)
(* Model of the MacroPad firmware main loop (src/3keys_1knob.c): three     *)
(* keys, a rotary encoder with push switch, four key layers and three      *)
(* NeoPixels.  One Loop step is one iteration of while(1) in main().       *)
(***************************************************************************)
EXTENDS Integers, Sequences, FiniteSets, TLC

VARIABLES
  key1, key2, key3, keyenc,       \* latched key / encoder switch states
  press, hold, all, knob,         \* chord masks and the two hold counters
  show_mode, mode_changed,        \* mode indicator counter, suppress flag
  encoder_state, encoder_value, encoder_dir,
  layer, max_layer,
  rom_max_layer,                  \* the max_layer byte stored in data flash
  neo, neofg, neobg, neofade,     \* live pixels and per-layer colours
  chars,                          \* per-layer bindings
  booted,                         \* BOOT_now() was called
  events,                         \* Events handed to parse_type this iteration
  typed,                          \* HID calls made this iteration
  transitions,                    \* parse_layer calls made this iteration
  shown,                          \* colours pushed by NEO_update this iteration
  faded,                          \* pixels right after fade_out(0)
  rot, moved, steps_cw, steps_ccw,\* encoder scenario bookkeeping
  f_from, f_by, f_min, f_calls,   \* safe_fade scenario
  idle_polls,                     \* iterations in a row with the switch held and no step
  quiet_polls,                    \* iterations in a row that only fade the pixels
  twin                            \* a second device fed the same pin readings

vars == << key1, key2, key3, keyenc, press, hold, all, knob, show_mode,
           mode_changed, encoder_state, encoder_value, encoder_dir, layer,
           max_layer, rom_max_layer, neo, neofg, neobg, neofade, chars,
           booted, events, typed, transitions, shown, faded, rot, moved, steps_cw,
           steps_ccw, f_from, f_by, f_min, f_calls, idle_polls, quiet_polls,
           twin >>

loopvars == << key1, key2, key3, keyenc, press, hold, all, knob, show_mode,
               mode_changed, encoder_state, encoder_value, encoder_dir, layer,
               max_layer, rom_max_layer, neo, neofg, neobg, neofade, chars,
               booted, events, typed, transitions, shown, faded >>

quadvars == << rot, moved, steps_cw, steps_ccw >>

fadevars == << f_from, f_by, f_min, f_calls >>

obsvars == << idle_polls, quiet_polls, twin >>

-----------------------------------------------------------------------------
(* Program constants *)

BOOT_HOLD == 200

KNOB_HOLD == 200

SHOW_MODE == 60

LAST_LAYER == 3

Layers == 0..LAST_LAYER

Pixels == 1..3

Event == {"KEY1", "KEY2", "KEY3", "ENC_SW", "ENC_CW", "ENC_CCW",
          "KEY12", "KEY23", "KEY13", "ENC_SW_CW", "ENC_SW_CCW"}

KeyEvent == {"KEY1", "KEY2", "KEY3", "KEY12", "KEY23", "KEY13"}

(* encoder_factor with the transition 3 -> 1 counted as no movement *)
encoder_factor_gap == << 0, 1, -1, 2, -1, 0, -2, 0, 1, -2, 0, -1, 2, -1, 1, 0 >>

encoder_factor == << 0, 1, -1, 2, -1, 0, -2, 1, 1, -2, 0, -1, 2, -1, 1, 0 >>

ModKeys == << "KBD_KEY_LEFT_CTRL", "KBD_KEY_LEFT_SHIFT", "KBD_KEY_LEFT_ALT",
              "KBD_KEY_LEFT_GUI", "KBD_KEY_RIGHT_CTRL", "KBD_KEY_RIGHT_SHIFT",
              "KBD_KEY_RIGHT_ALT", "KBD_KEY_RIGHT_GUI" >>

-----------------------------------------------------------------------------
(* Integer helpers for the C types *)

U8(x) == x % 256

I8(x) == ((x + 128) % 256) - 128

Bit(x, k) == (x \div (2 ^ k)) % 2

OrBit(x, k) == IF Bit(x, k) = 1 THEN x ELSE x + 2 ^ k

B2N(b) == IF b THEN 1 ELSE 0

-----------------------------------------------------------------------------
(* NeoPixel functions *)

set_neo_rgb(px, n, c) ==
  IF n = 0 THEN [p \in Pixels |-> c] ELSE [px EXCEPT ![n] = c]

set_neo_fg(px, n, fg, l) == set_neo_rgb(px, n, fg[l])

(* safe_fade adding the rate instead of subtracting it *)
safe_fade_up(from, by, min) ==
  IF from <= min THEN min
  ELSE IF from < by THEN min
  ELSE IF by < min THEN min
  ELSE U8(from + by)

safe_fade(from, by, min) ==
  IF from <= min THEN min
  ELSE IF from < by THEN min
  ELSE IF by < min THEN min
  ELSE U8(from - by)

fade_out(px, fade, bg) ==
  [p \in Pixels |-> [ch \in 1..3 |-> safe_fade(px[p][ch], fade[ch], bg[ch])]]

(* Reading a colour table at index l.  The tables have four entries; a     *)
(* read past the end yields whatever lies behind the array.                *)
OutOfArray(l) ==
  IF l \in Layers THEN { << 0, 0, 0 >> } ELSE { << 0, 0, 0 >>, << 255, 255, 255 >> }

rgb_at(tbl, l, behind) == IF l \in Layers THEN tbl[l] ELSE behind

-----------------------------------------------------------------------------
(* Layer selection *)

(* parse_layer without the upper wrap of case 3 *)
parse_layer_nowrap(dir, l, ml) ==
  LET m == IF ml > 3 THEN 3 ELSE ml
      stepped == U8(l + dir)
  IN  [ max_layer |-> m,
        layer |->
          IF dir = 0 THEN 0
          ELSE CASE m = 0 -> 0
                 [] m = 1 -> 3
                 [] m = 2 -> IF dir > 0 THEN 2 ELSE 3
                 [] m = 3 -> IF stepped < 1 THEN 3 ELSE stepped ]

(* parse_layer stepping cyclically through 1..max_layer in cases 1 and 2 *)
parse_layer_cyclic(dir, l, ml) ==
  LET m == IF ml > 3 THEN 3 ELSE ml
      stepped == U8(l + dir)
      wrapped == IF stepped > m THEN 1 ELSE stepped
  IN  [ max_layer |-> m,
        layer |->
          IF dir = 0 \/ m = 0 THEN 0
          ELSE IF wrapped < 1 THEN m ELSE wrapped ]

(* parse_layer selecting slot 1 instead of slot 3 in case 1 *)
parse_layer_slot1(dir, l, ml) ==
  LET m == IF ml > 3 THEN 3 ELSE ml
      stepped == U8(l + dir)
      wrapped == IF stepped > 3 THEN 1 ELSE stepped
  IN  [ max_layer |-> m,
        layer |->
          IF dir = 0 THEN 0
          ELSE CASE m = 0 -> 0
                 [] m = 1 -> 1
                 [] m = 2 -> IF dir > 0 THEN 2 ELSE 3
                 [] m = 3 -> IF wrapped < 1 THEN 3 ELSE wrapped ]

(* parse_layer with a signed layer: the step below 0 is not wrapped to 255 *)
parse_layer_signed(dir, l, ml) ==
  LET m == IF ml > 3 THEN 3 ELSE ml
      stepped == l + dir
      wrapped == IF stepped > 3 THEN 1 ELSE stepped
  IN  [ max_layer |-> m,
        layer |->
          IF dir = 0 THEN 0
          ELSE CASE m = 0 -> 0
                 [] m = 1 -> 3
                 [] m = 2 -> IF dir > 0 THEN 2 ELSE 3
                 [] m = 3 -> IF wrapped < 1 THEN 3 ELSE wrapped ]

(* parse_layer without the clamp of max_layer: a switch on a value that no *)
(* case matches leaves the layer as it is                                  *)
parse_layer_noclamp(dir, l, ml) ==
  LET stepped == U8(l + dir)
      wrapped == IF stepped > 3 THEN 1 ELSE stepped
  IN  [ max_layer |-> ml,
        layer |->
          IF dir = 0 THEN 0
          ELSE CASE ml = 0 -> 0
                 [] ml = 1 -> 3
                 [] ml = 2 -> IF dir > 0 THEN 2 ELSE 3
                 [] ml = 3 -> IF wrapped < 1 THEN 3 ELSE wrapped
                 [] OTHER -> l ]

parse_layer(dir, l, ml) ==
  LET m == IF ml > 3 THEN 3 ELSE ml
      stepped == U8(l + dir)
      wrapped == IF stepped > 3 THEN 1 ELSE stepped
  IN  [ max_layer |-> m,
        layer |->
          IF dir = 0 THEN 0
          ELSE CASE m = 0 -> 0
                 [] m = 1 -> 3
                 [] m = 2 -> IF dir > 0 THEN 2 ELSE 3
                 [] m = 3 -> IF wrapped < 1 THEN 3 ELSE wrapped ]

-----------------------------------------------------------------------------
(* Key-action dispatch *)

ModPresses(mod) ==
  LET RECURSIVE go(_)
      go(k) == IF k > 8 THEN << >>
               ELSE (IF Bit(mod, k - 1) = 1
                       THEN << [op |-> "KBD_press", code |-> ModKeys[k]] >>
                       ELSE << >>) \o go(k + 1)
  IN  go(1)

(* ModReleases releasing in the order of the presses *)
ModReleases_forward(mod) ==
  LET RECURSIVE go(_)
      go(k) == IF k > 8 THEN << >>
               ELSE (IF Bit(mod, k - 1) = 1
                       THEN << [op |-> "KBD_release", code |-> ModKeys[k]] >>
                       ELSE << >>) \o go(k + 1)
  IN  go(1)

ModReleases(mod) ==
  LET RECURSIVE go(_)
      go(k) == IF k < 1 THEN << >>
               ELSE (IF Bit(mod, k - 1) = 1
                       THEN << [op |-> "KBD_release", code |-> ModKeys[k]] >>
                       ELSE << >>) \o go(k - 1)
  IN  go(8)

mod_type(c, mod) ==
  ModPresses(mod) \o << [op |-> "KBD_type", code |-> c] >> \o ModReleases(mod)

get_type(ch, ev, n) ==
  LET c == ch[n][ev].c
      mod == ch[n][ev].mod
  IN  IF c = 0 THEN << >>
      ELSE IF mod = 255 THEN << [op |-> "CON_type", code |-> c] >>
      ELSE mod_type(c, mod)

(* parse_type resolving the Event on the current layer only *)
parse_type_own_layer(ch, ev, l, ml) == get_type(ch, ev, l)

parse_type(ch, ev, l, ml) ==
  get_type(ch, ev, l)
    \o (IF l = 0 /\ ml < 3
          THEN (IF ml <= 2 THEN get_type(ch, ev, 1) ELSE << >>)
               \o (IF ml <= 1 THEN get_type(ch, ev, 2) ELSE << >>)
               \o (IF ml <= 0 THEN get_type(ch, ev, 3) ELSE << >>)
          ELSE << >>)

(* key_event resolving the chord of key 1 and key 2 as two single keys *)
key_event_split(p) ==
  CASE p = 1 -> << "KEY1" >>
    [] p = 2 -> << "KEY2" >>
    [] p = 4 -> << "KEY3" >>
    [] p = 3 -> << "KEY1", "KEY2" >>
    [] p = 5 -> << "KEY13" >>
    [] p = 6 -> << "KEY23" >>
    [] OTHER -> << >>

key_event(p) ==
  CASE p = 1 -> << "KEY1" >>
    [] p = 2 -> << "KEY2" >>
    [] p = 4 -> << "KEY3" >>
    [] p = 3 -> << "KEY12" >>
    [] p = 5 -> << "KEY13" >>
    [] p = 6 -> << "KEY23" >>
    [] OTHER -> << >>

TypeAll(ch, evs, l, ml) ==
  LET RECURSIVE go(_)
      go(i) == IF i > Len(evs) THEN << >>
               ELSE parse_type(ch, evs[i], l, ml) \o go(i + 1)
  IN  go(1)

-----------------------------------------------------------------------------
(* Quadrature decoder: one poll of the two phase pins *)

(* quad_step clearing the accumulator when a step is emitted *)
quad_step_reset(state, value, a, b) ==
  LET i == (state % 4) + 4 * B2N(a) + 8 * B2N(b)
      v == I8(value + encoder_factor[i + 1])
  IN  [ state |-> i \div 4,
        dir   |-> IF v >= 4 THEN -1 ELSE IF v <= -4 THEN 1 ELSE 0,
        value |-> IF v >= 4 \/ v <= -4 THEN 0 ELSE v ]

quad_step(state, value, a, b) ==
  LET i == (state % 4) + 4 * B2N(a) + 8 * B2N(b)
      v == I8(value + encoder_factor[i + 1])
  IN  [ state |-> i \div 4,
        dir   |-> IF v >= 4 THEN -1 ELSE IF v <= -4 THEN 1 ELSE 0,
        value |-> IF v >= 4 THEN I8(v - 4) ELSE IF v <= -4 THEN I8(v + 4) ELSE v ]

(* Event resolved for a direction step d, with the encoder switch held or  *)
(* not; with layers configured a step while held selects a layer instead.  *)
rot_event(d, held, ml) ==
  IF d = 0 THEN << >>
  ELSE IF held
    THEN (IF ml > 0 THEN << >>
          ELSE IF d > 0 THEN << "ENC_SW_CCW" >> ELSE << "ENC_SW_CW" >>)
    ELSE (IF d > 0 THEN << "ENC_CCW" >> ELSE << "ENC_CW" >>)

-----------------------------------------------------------------------------
(* Keymap decode: default substitution for stored colours *)

decode_fg(c) == IF c[1] = 0 /\ c[2] = 0 /\ c[3] = 0 THEN << 255, 22, c[3] >> ELSE c

decode_bg(c) == IF c[1] = 0 /\ c[2] = 0 /\ c[3] = 0 THEN << 12, 1, c[3] >> ELSE c

(* decode_fade keeping a stored rate of 0 *)
decode_fade_raw(c) == c

decode_fade(c) == [ch \in 1..3 |-> IF c[ch] = 0 THEN 1 ELSE c[ch]]

(* The loop state with every control released and the pixels settled, at   *)
(* layer l: for l = 0 the state on entry to while(1), for l > 0 the state  *)
(* some time after a layer selection.  rom is the stored max_layer byte.   *)
Idle(l, ml, rom, ch, rawfg, rawbg, rawfade) ==
  /\ key1 = FALSE /\ key2 = FALSE /\ key3 = FALSE /\ keyenc = FALSE
  /\ press = 0 /\ hold = 0 /\ all = 0 /\ knob = 0
  /\ show_mode = 0 /\ mode_changed = (l # 0)
  /\ encoder_state = 0 /\ encoder_value = 0 /\ encoder_dir = 0
  /\ layer = l /\ max_layer = ml /\ rom_max_layer = rom
  /\ chars = ch
  /\ neofg = [n \in Layers |-> decode_fg(rawfg[n])]
  /\ neobg = [n \in Layers |-> decode_bg(rawbg[n])]
  /\ neofade = [n \in Layers |-> decode_fade(rawfade[n])]
  /\ neo = [p \in Pixels |-> IF l = 0 THEN decode_fg(rawfg[0]) ELSE decode_bg(rawbg[l])]
  /\ shown = neo
  /\ faded = neo
  /\ booted = FALSE
  /\ events = << >> /\ typed = << >> /\ transitions = << >>

Start(rom, ch, rawfg, rawbg, rawfade) == Idle(0, rom, rom, ch, rawfg, rawbg, rawfade)

-----------------------------------------------------------------------------
(* The Event of the encoder switch in one iteration: was is the latched    *)
(* state, now the pin, mc the suppress flag after the press test.          *)
sw_event_always(was, now, mc) ==
  IF was # now /\ ~now THEN << "ENC_SW" >> ELSE << >>

sw_event(was, now, mc) ==
  IF was # now /\ ~now /\ ~mc THEN << "ENC_SW" >> ELSE << >>

(* The three-key hold counter after the chord test of one iteration: h is  *)
(* the hold mask of the iteration, a the counter before it.                *)
all_count_any(h, a) == IF h = 0 THEN 0 ELSE U8(a + 1)

all_count(h, a) == IF h = 0 THEN 0 ELSE IF h = 7 THEN U8(a + 1) ELSE a

(* The loop state of the device as one record *)
Cur ==
  [ key1 |-> key1, key2 |-> key2, key3 |-> key3, keyenc |-> keyenc,
    press |-> press, hold |-> hold, all |-> all, knob |-> knob,
    show_mode |-> show_mode, mode_changed |-> mode_changed,
    encoder_state |-> encoder_state, encoder_value |-> encoder_value,
    encoder_dir |-> encoder_dir, layer |-> layer, max_layer |-> max_layer,
    neo |-> neo, booted |-> booted, events |-> events, typed |-> typed,
    transitions |-> transitions, shown |-> shown, faded |-> faded ]

(* One iteration of while(1) on the loop state s.  p1, p2, p3, psw, pa, pb *)
(* are the six pins, TRUE when the pin reads low (!PIN_read(..)); behind   *)
(* is what a read past the end of a colour table yields.                   *)
Step(s, p1, p2, p3, psw, pa, pb, behind) ==
  LET h    == B2N(p1) + 2 * B2N(p2) + 4 * B2N(p3)
      pr1  == IF p1 THEN OrBit(s.press, 0) ELSE s.press
      pr2  == IF p2 THEN OrBit(pr1, 1) ELSE pr1
      pr   == IF p3 THEN OrBit(pr2, 2) ELSE pr2
      n1   == IF p1 THEN set_neo_fg(s.neo, 1, neofg, s.layer) ELSE s.neo
      n2   == IF p2 THEN set_neo_fg(n1, 2, neofg, s.layer) ELSE n1
      n3   == IF p3 THEN set_neo_fg(n2, 3, neofg, s.layer) ELSE n2
      kev  == IF h = 0 THEN key_event(pr) ELSE << >>
      cnt  == all_count(h, s.all)
      boot == h = 7 /\ cnt > BOOT_HOLD
      \* encoder switch
      swchg == psw # s.keyenc
      mc1  == IF swchg /\ psw THEN FALSE ELSE s.mode_changed
      swev == sw_event(s.keyenc, psw, mc1)
      \* quadrature decoder
      q    == quad_step(s.encoder_state, s.encoder_value, pa, pb)
      d    == q.dir
      \* encoder pressed: rotation step
      rot_layer == psw /\ d # 0 /\ s.max_layer > 0
      pl1  == IF rot_layer THEN parse_layer(d, s.layer, s.max_layer)
              ELSE [max_layer |-> s.max_layer, layer |-> s.layer]
      mc2  == IF psw /\ d # 0 THEN TRUE ELSE mc1
      sm1  == IF rot_layer THEN SHOW_MODE ELSE s.show_mode
      rotev == rot_event(d, psw, s.max_layer)
      \* encoder pressed: idle timeout
      timed == psw /\ pl1.max_layer > 0 /\ s.knob > KNOB_HOLD
      pl2  == IF timed THEN parse_layer(0, pl1.layer, pl1.max_layer) ELSE pl1
      mc3  == IF timed THEN TRUE ELSE mc2
      sm2  == IF psw /\ pl1.max_layer > 0 /\ mc3 THEN SHOW_MODE ELSE sm1
      kn   == IF ~psw THEN 0
              ELSE IF pl1.max_layer > 0
                THEN (IF mc3 THEN 0 ELSE U8(s.knob + 1))
                ELSE s.knob
      evs  == kev \o swev \o rotev
      fd   == fade_out(n3, rgb_at(neofade, pl2.layer, behind),
                       rgb_at(neobg, pl2.layer, behind))
  IN  IF boot
        THEN [s EXCEPT !.key1 = p1, !.key2 = p2, !.key3 = p3, !.hold = h,
                       !.press = pr, !.all = cnt, !.booted = TRUE, !.neo = n3,
                       !.events = << >>, !.typed = << >>, !.transitions = << >>]
        ELSE [ key1 |-> p1, key2 |-> p2, key3 |-> p3, keyenc |-> psw,
               hold |-> h,
               press |-> IF h = 0 THEN 0 ELSE pr,
               all |-> cnt,
               booted |-> FALSE,
               mode_changed |-> mc3,
               encoder_state |-> q.state,
               encoder_value |-> q.value,
               encoder_dir |-> d,
               layer |-> pl2.layer,
               max_layer |-> pl2.max_layer,
               knob |-> kn,
               events |-> evs,
               typed |-> TypeAll(chars, evs, s.layer, s.max_layer),
               transitions |->
                 (IF rot_layer THEN << [dir |-> d, from |-> s.layer, to |-> pl1.layer] >>
                               ELSE << >>)
                 \o (IF timed THEN << [dir |-> 0, from |-> pl1.layer, to |-> pl2.layer] >>
                              ELSE << >>),
               shown |-> n3,
               faded |-> fd,
               show_mode |-> IF sm2 > 0 THEN sm2 - 1 ELSE 0,
               neo |-> IF sm2 > 0 THEN set_neo_rgb(fd, 0, rgb_at(neofg, pl2.layer, behind))
                                  ELSE fd ]

(* BOOT_now() hands the device over to the bootloader: the call does not   *)
(* return to main().                                                       *)
BOOT_now_returns == FALSE

(* One iteration of while(1) of the device; none is taken once BOOT_now()  *)
(* was called.                                                             *)
Loop(p1, p2, p3, psw, pa, pb) ==
  /\ booted => BOOT_now_returns
  /\ \E r0 \in { Step(Cur, p1, p2, p3, psw, pa, pb, << 0, 0, 0 >>) } :
     \E behind \in OutOfArray(r0.layer) :
     \E r \in { IF r0.layer \in Layers THEN r0
                ELSE Step(Cur, p1, p2, p3, psw, pa, pb, behind) } :
           /\ key1' = r.key1 /\ key2' = r.key2 /\ key3' = r.key3
           /\ keyenc' = r.keyenc
           /\ press' = r.press /\ hold' = r.hold /\ all' = r.all
           /\ knob' = r.knob
           /\ show_mode' = r.show_mode /\ mode_changed' = r.mode_changed
           /\ encoder_state' = r.encoder_state
           /\ encoder_value' = r.encoder_value
           /\ encoder_dir' = r.encoder_dir
           /\ layer' = r.layer /\ max_layer' = r.max_layer
           /\ neo' = r.neo /\ booted' = r.booted
           /\ events' = r.events /\ typed' = r.typed
           /\ transitions' = r.transitions
           /\ shown' = r.shown /\ faded' = r.faded
  /\ UNCHANGED << chars, neofg, neobg, neofade, rom_max_layer >>

-----------------------------------------------------------------------------
(* Stored keymaps the model is run on *)

EvNum(ev) ==
  CASE ev = "KEY1" -> 1 [] ev = "KEY2" -> 2 [] ev = "KEY3" -> 3
    [] ev = "ENC_SW" -> 4 [] ev = "ENC_CW" -> 5 [] ev = "ENC_CCW" -> 6
    [] ev = "KEY12" -> 7 [] ev = "KEY23" -> 8 [] ev = "KEY13" -> 9
    [] ev = "ENC_SW_CW" -> 10 [] ev = "ENC_SW_CCW" -> 11

EvMod(ev) ==
  CASE ev = "KEY2" -> 255 [] ev = "KEY3" -> 3 [] ev = "KEY12" -> 129
    [] ev = "ENC_CW" -> 255 [] ev = "ENC_CCW" -> 255 [] OTHER -> 0

(* Every Event bound on the layers in `bound`, unbound on the others *)
CharsOn(bound) ==
  [n \in Layers |-> [ev \in Event |->
     IF n \in bound THEN [mod |-> EvMod(ev), c |-> 16 * n + EvNum(ev)]
                    ELSE [mod |-> 0, c |-> 0]]]

MaxLayerBytes == {0, 1, 2, 3, 4, 255}

Uniform(c) == [l \in Layers |-> c]

LayerTint == [l \in Layers |-> << 40 + l, 1, 0 >>]

-----------------------------------------------------------------------------
(* Encoder specification: the three keys stay released, the encoder switch *)
(* and the two phase pins take any value on every poll.                    *)

InitEnc ==
  /\ \E ml \in MaxLayerBytes :
       Start(ml, CharsOn(Layers), LayerTint, Uniform(<< 0, 0, 0 >>),
             Uniform(<< 255, 255, 255 >>))
  /\ rot = 0 /\ moved = 0 /\ steps_cw = 0 /\ steps_ccw = 0
  /\ f_from = 0 /\ f_by = 0 /\ f_min = 0 /\ f_calls = 0
  /\ idle_polls = 0 /\ quiet_polls = 0 /\ twin = << >>

NextEnc ==
  /\ \E psw, pa, pb \in BOOLEAN : Loop(FALSE, FALSE, FALSE, psw, pa, pb)
  /\ UNCHANGED << quadvars, fadevars, obsvars >>

SpecEnc == InitEnc /\ [][NextEnc]_vars

-----------------------------------------------------------------------------
(* Key specification: the encoder is left alone, the three key pins take   *)
(* any value on every poll.                                                *)

KeyConfigs ==
  { [ml |-> 0, bound |-> {0, 1, 2, 3},
     fg |-> << 12, 12, 12 >>, bg |-> << 10, 10, 10 >>, fade |-> << 5, 5, 5 >>],
    [ml |-> 2, bound |-> {0, 1},
     fg |-> << 12, 12, 12 >>, bg |-> << 10, 10, 10 >>, fade |-> << 10, 10, 10 >>],
    [ml |-> 3, bound |-> {0},
     fg |-> << 0, 0, 0 >>, bg |-> << 0, 0, 20 >>, fade |-> << 200, 30, 0 >>] }

InitKeys ==
  /\ \E k \in KeyConfigs :
       Start(k.ml, CharsOn(k.bound), Uniform(k.fg), Uniform(k.bg), Uniform(k.fade))
  /\ rot = 0 /\ moved = 0 /\ steps_cw = 0 /\ steps_ccw = 0
  /\ f_from = 0 /\ f_by = 0 /\ f_min = 0 /\ f_calls = 0
  /\ idle_polls = 0 /\ quiet_polls = 0 /\ twin = << >>

NextKeys ==
  /\ \E p1, p2, p3 \in BOOLEAN : Loop(p1, p2, p3, FALSE, FALSE, FALSE)
  /\ UNCHANGED << quadvars, fadevars, obsvars >>

SpecKeys == InitKeys /\ [][NextKeys]_vars

-----------------------------------------------------------------------------
(* Hold specification: the encoder is operated with layers configured, and *)
(* idle_polls counts the iterations in a row that found the switch held    *)
(* and no rotation step, up to IdleCap.                                    *)

HoldBytes == {1, 3}

IdleCap == KNOB_HOLD + 2

InitHold ==
  /\ \E ml \in HoldBytes :
       Start(ml, CharsOn(Layers), LayerTint, Uniform(<< 0, 0, 0 >>),
             Uniform(<< 255, 255, 255 >>))
  /\ rot = 0 /\ moved = 0 /\ steps_cw = 0 /\ steps_ccw = 0
  /\ f_from = 0 /\ f_by = 0 /\ f_min = 0 /\ f_calls = 0
  /\ idle_polls = 0 /\ quiet_polls = 0 /\ twin = << >>

NextHold ==
  /\ \E psw, pa, pb \in BOOLEAN : Loop(FALSE, FALSE, FALSE, psw, pa, pb)
  /\ idle_polls' = IF keyenc' /\ encoder_dir' = 0
                     THEN (IF idle_polls < IdleCap THEN idle_polls + 1 ELSE IdleCap)
                     ELSE 0
  /\ UNCHANGED << quiet_polls, twin, quadvars, fadevars >>

SpecHold == InitHold /\ [][NextHold]_vars

-----------------------------------------------------------------------------
(* Twin specification: the device holds a max_layer byte above 3; twin is  *)
(* the loop state of a device with the same keymap but the byte 3, and     *)
(* every iteration feeds both the same readings of the encoder pins.       *)

AboveBytes == {4, 255}

InitTwin ==
  /\ \E ml \in AboveBytes :
       Start(ml, CharsOn(Layers), LayerTint, Uniform(<< 0, 0, 0 >>),
             Uniform(<< 255, 255, 255 >>))
  /\ rot = 0 /\ moved = 0 /\ steps_cw = 0 /\ steps_ccw = 0
  /\ f_from = 0 /\ f_by = 0 /\ f_min = 0 /\ f_calls = 0
  /\ idle_polls = 0 /\ quiet_polls = 0
  /\ twin = [Cur EXCEPT !.max_layer = LAST_LAYER]

NextTwin ==
  /\ \E psw, pa, pb \in BOOLEAN :
       /\ Loop(FALSE, FALSE, FALSE, psw, pa, pb)
       /\ twin' = IF twin.booted THEN twin
                  ELSE Step(twin, FALSE, FALSE, FALSE, psw, pa, pb, << 0, 0, 0 >>)
  /\ UNCHANGED << idle_polls, quiet_polls, quadvars, fadevars >>

SpecTwin == InitTwin /\ [][NextTwin]_vars

-----------------------------------------------------------------------------
(* Glow specification: quiet_polls counts the iterations in a row in which *)
(* no key and not the encoder switch is held, the mode indicator is off    *)
(* and the layer stays, up to QuietCap.  A pad without layers, with the    *)
(* slowest fade (stored rate 0, from 255 down to 0), is operated by key 1; *)
(* a pad with four layers is operated by the encoder.                      *)

QuietCap == 255 + 1

GlowConfigs ==
  { [ml |-> 0, fg |-> Uniform(<< 255, 3, 0 >>), bg |-> Uniform(<< 0, 0, 1 >>),
     fade |-> Uniform(<< 0, 0, 0 >>)],
    [ml |-> LAST_LAYER, fg |-> LayerTint, bg |-> Uniform(<< 0, 0, 0 >>),
     fade |-> Uniform(<< 255, 255, 255 >>)] }

InitGlow ==
  /\ \E k \in GlowConfigs : Start(k.ml, CharsOn(Layers), k.fg, k.bg, k.fade)
  /\ rot = 0 /\ moved = 0 /\ steps_cw = 0 /\ steps_ccw = 0
  /\ f_from = 0 /\ f_by = 0 /\ f_min = 0 /\ f_calls = 0
  /\ idle_polls = 0 /\ quiet_polls = 0 /\ twin = << >>

QuietStep ==
  /\ hold' = 0 /\ ~keyenc'
  /\ show_mode = 0 /\ show_mode' = 0
  /\ layer' = layer

Counted ==
  /\ quiet_polls' = IF QuietStep
                      THEN (IF quiet_polls < QuietCap THEN quiet_polls + 1 ELSE QuietCap)
                      ELSE 0
  /\ UNCHANGED << idle_polls, twin, quadvars, fadevars >>

KeyGlow ==
  /\ rom_max_layer = 0
  /\ \E p1 \in BOOLEAN : Loop(p1, FALSE, FALSE, FALSE, FALSE, FALSE)
  /\ Counted

EncGlow ==
  /\ rom_max_layer > 0
  /\ \E psw, pa, pb \in BOOLEAN : Loop(FALSE, FALSE, FALSE, psw, pa, pb)
  /\ Counted

NextGlow == KeyGlow \/ EncGlow

SpecGlow == InitGlow /\ [][NextGlow]_vars

-----------------------------------------------------------------------------
(* Dispatch specification: parse_type applied to every Event, on every     *)
(* (layer, max_layer) pair the layer selection can produce.                *)

RECURSIVE LayerReach(_, _)
LayerReach(seen, n) ==
  IF n = 0 THEN seen
  ELSE LayerReach(seen \cup { LET r == parse_layer(d, s[1], s[2])
                              IN  << r.layer, r.max_layer, s[3] >> :
                              d \in {-1, 0, 1},
                              s \in { t \in seen : t[2] > 0 } }, n - 1)

LayerStates == LayerReach({ << 0, ml, ml >> : ml \in MaxLayerBytes }, 4)

TypeBound == SUBSET Layers

InitType ==
  /\ \E s \in LayerStates, b \in TypeBound :
       Idle(s[1], s[2], s[3], CharsOn(b), LayerTint, Uniform(<< 0, 0, 0 >>),
            Uniform(<< 255, 255, 255 >>))
  /\ rot = 0 /\ moved = 0 /\ steps_cw = 0 /\ steps_ccw = 0
  /\ f_from = 0 /\ f_by = 0 /\ f_min = 0 /\ f_calls = 0
  /\ idle_polls = 0 /\ quiet_polls = 0 /\ twin = << >>

Dispatch ==
  /\ \E ev \in Event :
       /\ events' = << ev >>
       /\ typed' = parse_type(chars, ev, layer, max_layer)
  /\ UNCHANGED << key1, key2, key3, keyenc, press, hold, all, knob, show_mode,
                  mode_changed, encoder_state, encoder_value, encoder_dir,
                  layer, max_layer, rom_max_layer, neo, neofg, neobg, neofade,
                  chars, booted, transitions, shown, faded, quadvars, fadevars,
                  obsvars >>

SpecType == InitType /\ [][Dispatch]_vars

-----------------------------------------------------------------------------
(* Modifier specification: every Event of layer 0 is bound to one          *)
(* (modifier, character) pair, drawn from every modifier byte, and         *)
(* max_layer = 3 keeps the dispatch on that one binding.                   *)

ModChars == {0, 4, 233}

OneBinding(mod, c) == [n \in Layers |-> [ev \in Event |-> [mod |-> mod, c |-> c]]]

InitMod ==
  /\ \E mod \in 0..255, c \in ModChars :
       Idle(0, LAST_LAYER, LAST_LAYER, OneBinding(mod, c), LayerTint,
            Uniform(<< 0, 0, 0 >>), Uniform(<< 255, 255, 255 >>))
  /\ rot = 0 /\ moved = 0 /\ steps_cw = 0 /\ steps_ccw = 0
  /\ f_from = 0 /\ f_by = 0 /\ f_min = 0 /\ f_calls = 0
  /\ idle_polls = 0 /\ quiet_polls = 0 /\ twin = << >>

SpecMod == InitMod /\ [][Dispatch]_vars

-----------------------------------------------------------------------------
(* Rotation specification: the knob is turned in one direction, rot = 1    *)
(* through the phase states 0, 2, 3, 1 and rot = -1 through 0, 1, 3, 2;    *)
(* every poll sees the previous phase state again or the next one.         *)

MaxDetents == 3

Phase == << 0, 2, 3, 1 >>

PhaseAt(r, m) == Phase[((r * m) % 4) + 1]

InitQuad ==
  /\ Start(0, CharsOn(Layers), LayerTint, Uniform(<< 0, 0, 0 >>),
           Uniform(<< 255, 255, 255 >>))
  /\ rot \in {-1, 1} /\ moved = 0 /\ steps_cw = 0 /\ steps_ccw = 0
  /\ f_from = 0 /\ f_by = 0 /\ f_min = 0 /\ f_calls = 0
  /\ idle_polls = 0 /\ quiet_polls = 0 /\ twin = << >>

Poll(m) ==
  /\ \E psw \in BOOLEAN :
       Loop(FALSE, FALSE, FALSE, psw, PhaseAt(rot, m) % 2 = 1, PhaseAt(rot, m) \div 2 = 1)
  /\ moved' = m
  /\ steps_cw' = steps_cw + (IF encoder_dir' < 0 THEN 1 ELSE 0)
  /\ steps_ccw' = steps_ccw + (IF encoder_dir' > 0 THEN 1 ELSE 0)
  /\ UNCHANGED << rot, fadevars, obsvars >>

Resample == Poll(moved)

Advance == moved < 4 * MaxDetents /\ Poll(moved + 1)

NextQuad == Resample \/ Advance

SpecQuad == InitQuad /\ [][NextQuad]_vars

-----------------------------------------------------------------------------
(* Fade specification: safe_fade applied repeatedly to one channel.        *)

MaxFadeByte == 12

MaxFadeCalls == 2

FadeBytes == 0..MaxFadeByte \cup {127, 128, 254, 255}

InitFade ==
  /\ Start(0, CharsOn(Layers), LayerTint, Uniform(<< 0, 0, 0 >>),
           Uniform(<< 255, 255, 255 >>))
  /\ rot = 0 /\ moved = 0 /\ steps_cw = 0 /\ steps_ccw = 0
  /\ f_from \in FadeBytes /\ f_by \in FadeBytes \ {0} /\ f_min \in FadeBytes
  /\ f_calls = 0
  /\ idle_polls = 0 /\ quiet_polls = 0 /\ twin = << >>

FadeStep ==
  /\ f_calls < MaxFadeCalls
  /\ f_from' = safe_fade(f_from, f_by, f_min)
  /\ f_calls' = f_calls + 1
  /\ UNCHANGED << f_by, f_min, loopvars, quadvars, obsvars >>

SpecFade == InitFade /\ [][FadeStep]_vars

-----------------------------------------------------------------------------
(* Vocabulary of the properties *)

(* The direction step that is dispatched as ENC_CW with the switch released *)
CwDir == CHOOSE d \in {-1, 1} : rot_event(d, FALSE, 0) = << "ENC_CW" >>

CcwDir == CHOOSE d \in {-1, 1} : rot_event(d, FALSE, 0) = << "ENC_CCW" >>

RotationSteps == { i \in DOMAIN transitions : transitions[i].dir # 0 }

TimeoutResets == { i \in DOMAIN transitions : transitions[i].dir = 0 }

Touched(mask) == { k \in 1..3 : Bit(mask, k - 1) = 1 }

Chord(keys) ==
  CASE keys = {1} -> << "KEY1" >>
    [] keys = {2} -> << "KEY2" >>
    [] keys = {3} -> << "KEY3" >>
    [] keys = {1, 2} -> << "KEY12" >>
    [] keys = {1, 3} -> << "KEY13" >>
    [] keys = {2, 3} -> << "KEY23" >>
    [] OTHER -> << >>

(* The key-action sequence of one (modifier, character) pair *)
RECURSIVE Ascending(_)
Ascending(S) ==
  IF S = {} THEN << >>
  ELSE LET lo == CHOOSE x \in S : \A y \in S : x <= y
       IN  << lo >> \o Ascending(S \ {lo})

Reverse(q) == [i \in 1..Len(q) |-> q[Len(q) + 1 - i]]

Flags(mod) == Ascending({ k \in 1..8 : Bit(mod, k - 1) = 1 })

ActionSeq(b) ==
  IF b.c = 0 THEN << >>
  ELSE IF b.mod = 255 THEN << [op |-> "CON_type", code |-> b.c] >>
  ELSE [i \in 1..Len(Flags(b.mod)) |-> [op |-> "KBD_press", code |-> ModKeys[Flags(b.mod)[i]]]]
       \o << [op |-> "KBD_type", code |-> b.c] >>
       \o [i \in 1..Len(Flags(b.mod)) |->
             [op |-> "KBD_release", code |-> ModKeys[Reverse(Flags(b.mod))[i]]]]

RECURSIVE ChainSeq(_, _, _)
ChainSeq(ev, n, last) ==
  IF n > last THEN << >> ELSE ActionSeq(chars[n][ev]) \o ChainSeq(ev, n + 1, last)

-----------------------------------------------------------------------------
(* Layer properties, checked under SpecEnc *)

(* C1: in every reachable state of the main loop, for every stored         *)
(* max_layer byte and every input sequence, the layer index is in 0..3,    *)
(* and so is the layer left by every parse_layer call, including the step  *)
(* of -1 from layer 0 that wraps the 8-bit layer to 255.                   *)
C1_LayerInRange ==
  /\ layer \in 0..3
  /\ \A i \in DOMAIN transitions : transitions[i].to \in 0..3

(* C1 witness: a step of -1 was applied to layer 0 and left layer 1 *)
C1_WrapFromZero ==
  /\ transitions # << >>
  /\ transitions[1].from = 0 /\ transitions[1].dir = -1
  /\ U8(transitions[1].from + transitions[1].dir) = 255
  /\ layer = 1

(* C2 as stated: after every layer transition (rotation step with the      *)
(* switch held, or idle-timeout reset) the layer is at most max_layer.     *)
C2_AtMostMaxLayer ==
  rom_max_layer \in 0..3 =>
    \A i \in DOMAIN transitions : transitions[i].to <= max_layer

(* C2 amended: a transition leaves the layer in 0..3; the idle-timeout     *)
(* reset leaves 0; a rotation step leaves 3 when max_layer = 1, leaves 2   *)
(* or 3 when max_layer = 2 and leaves 1..3 when max_layer = 3; with        *)
(* max_layer = 0 there is no transition and the layer stays 0.  So the     *)
(* layer is at most max_layer only for max_layer 0 and 3.                  *)
C2_TransitionTargets ==
  /\ \A i \in TimeoutResets : transitions[i].to = 0
  /\ \A i \in RotationSteps :
       /\ max_layer \in 1..3
       /\ max_layer = 1 => transitions[i].to = 3
       /\ max_layer = 2 => transitions[i].to \in {2, 3}
       /\ max_layer = 3 => transitions[i].to \in 1..3
  /\ max_layer = 0 => (transitions = << >> /\ layer = 0)
  /\ max_layer \in {0, 3} => layer <= max_layer
  /\ transitions # << >> => layer = transitions[Len(transitions)].to

(* C2 witness: a rotation step left a layer above max_layer *)
C2_AboveMaxLayer ==
  /\ RotationSteps # {}
  /\ max_layer = 2 /\ layer = 3 /\ keyenc

(* C8 as stated: with max_layer = 3 and the switch held, a clockwise       *)
(* detent takes layer 1 to 2, layer 2 to 3 and layer 3 to 1, so that three *)
(* clockwise detents from layer 1 visit 2, 3, 1.                           *)
C8_ClockwiseCycle ==
  rom_max_layer = 3 =>
    \A i \in RotationSteps :
      (transitions[i].dir = CwDir /\ transitions[i].from \in 1..3) =>
        transitions[i].to = (transitions[i].from % 3) + 1

(* C9 as stated: with max_layer = 2 and the switch held, a clockwise       *)
(* detent selects layer 2 and a counter-clockwise detent selects layer 3.  *)
C9_DirectSelect ==
  rom_max_layer = 2 =>
    \A i \in RotationSteps :
      /\ transitions[i].dir = CwDir => transitions[i].to = 2
      /\ transitions[i].dir = CcwDir => transitions[i].to = 3

(* C10: with max_layer = 1 every rotation step detected while the switch   *)
(* is held selects layer 3, from every layer and in both directions, and   *)
(* resolves no Event; the layer is 3 at the end of that iteration unless   *)
(* the idle-timeout reset fired in the same iteration after the step.      *)
C10_SingleAlternate ==
  /\ \A l \in Layers, d \in {-1, 1} : parse_layer(d, l, 1).layer = 3
  /\ (max_layer = 1 /\ keyenc /\ encoder_dir # 0) =>
       /\ transitions # << >>
       /\ transitions[1].dir = encoder_dir
       /\ transitions[1].to = 3
       /\ events = << >> /\ typed = << >>
       /\ mode_changed
       /\ layer = IF TimeoutResets = {} THEN 3 ELSE 0

(* C10 witness: a step taken on layer 3 with max_layer = 1 stayed on 3 *)
C10_StepOnThree ==
  /\ max_layer = 1 /\ keyenc /\ encoder_dir # 0
  /\ transitions # << >> /\ transitions[1].from = 3
  /\ layer = 3

-----------------------------------------------------------------------------
(* Dispatch properties, checked under SpecType *)

-----------------------------------------------------------------------------
(* Chord properties, checked under SpecKeys *)

(* C4: no key Event is resolved in an iteration in which a key is held;    *)
(* in the iteration in which all keys are released the Event resolved is   *)
(* the one of the set of keys touched since the last full release (none    *)
(* for no key and for all three keys), resolved once; press is that set.   *)
C4_ChordOnRelease ==
  [][ /\ events' = IF ~key1' /\ ~key2' /\ ~key3' THEN Chord(Touched(press)) ELSE << >>
      /\ Len(events') <= 1
      /\ Touched(press') =
           IF ~key1' /\ ~key2' /\ ~key3' THEN {}
           ELSE Touched(press) \cup { k \in 1..3 : << key1', key2', key3' >>[k] } ]_vars

(* C4 witness: keys 1 and 2 were touched and all keys are now released:    *)
(* exactly KEY12 is resolved and its layer-0 binding typed.                *)
C4_Key12Resolved ==
  /\ events = << "KEY12" >>
  /\ ~key1 /\ ~key2 /\ ~key3 /\ press = 0
  /\ typed # << >> /\ typed[1] = ActionSeq(chars[0]["KEY12"])[1]

-----------------------------------------------------------------------------
(* Quadrature property, checked under SpecQuad *)

(* C5: after any polled sequence that turns the knob through `moved`       *)
(* phase transitions in one direction, however often each phase state is   *)
(* resampled, the decoder has emitted moved \div 4 steps, all of the sign  *)
(* of that direction: N steps after N full detents.                        *)
C5_StepsPerDetent ==
  /\ steps_cw = IF rot = 1 THEN moved \div 4 ELSE 0
  /\ steps_ccw = IF rot = -1 THEN moved \div 4 ELSE 0

(* C5 witness: MaxDetents full detents turned, MaxDetents steps emitted *)
C5_AllDetentsTurned ==
  /\ moved = 4 * MaxDetents
  /\ steps_cw + steps_ccw = MaxDetents
  /\ encoder_value = 0 /\ encoder_dir = 0

-----------------------------------------------------------------------------
(* Fade properties *)

(* C6 as stated (SpecFade): one fade step never leaves a channel below the *)
(* background value, for every live value, rate >= 1 and background.       *)
C6_FadeFloor ==
  f_calls > 0 => f_from >= f_min

(* C7 as stated (SpecKeys): the value of every channel of every pixel      *)
(* after the fade step of an iteration is at most the value pushed before  *)
(* that step.                                                              *)
C7_FadeNonIncreasing ==
  \A p \in Pixels, ch \in 1..3 : faded[p][ch] <= shown[p][ch]

(* C7 amended: the fade step does not increase a channel that is at or     *)
(* above the current layer's background channel, and it raises a channel   *)
(* that is below the background channel to exactly the background channel; *)
(* apart from that a channel increases only through the foreground         *)
(* assignment on key press and through the mode indicator.                 *)
C7_FadeTowardsBackground ==
  [][ ~booted' => \A p \in Pixels :
        /\ \A ch \in 1..3 :
             /\ shown'[p][ch] >= neobg[layer'][ch] => faded'[p][ch] <= shown'[p][ch]
             /\ shown'[p][ch] < neobg[layer'][ch] => faded'[p][ch] = neobg[layer'][ch]
        /\ shown'[p] # neo[p] => (<< key1', key2', key3' >>[p] /\ shown'[p] = neofg[layer])
        /\ neo'[p] # faded'[p] => neo'[p] = neofg[layer'] ]_vars

(* C7 witness: a key is held on a layer whose foreground blue channel is   *)
(* below the background blue channel; the fade step raised the channel.    *)
C7_RaisedToBackground ==
  /\ key1
  /\ shown[1] = neofg[layer]
  /\ shown[1][3] < neobg[layer][3]
  /\ faded[1][3] = neobg[layer][3]

-----------------------------------------------------------------------------
(* C11 (SpecKeys): the bootloader is entered exactly in the iteration that *)
(* finds the three keys held with the hold counter at 200, which that      *)
(* iteration raises to 201; that iteration dispatches no Event, makes no   *)
(* HID call and pushes no pixel update; and no iteration starts once the   *)
(* bootloader was entered, so it is entered at most once.                  *)
C11_BootAtThreshold ==
  [][ /\ ~booted
      /\ booted' <=> (key1' /\ key2' /\ key3' /\ all = 200)
      /\ booted' => /\ all' = 201
                    /\ events' = << >> /\ typed' = << >>
                    /\ shown' = shown /\ faded' = faded ]_vars

(* C11 witness: the bootloader was entered with the counter at 201 *)
C11_Booted == booted /\ all = 201 /\ hold = 7

(* C12 as stated (SpecKeys): when an iteration finds a three-key hold      *)
(* ended below the threshold, the hold counter is back to 0, and the       *)
(* release of a chord that contained all three keys dispatches no Event.   *)
C12_ReleaseDiscardsHold ==
  [][ /\ (hold = 7 /\ hold' # 7) => all' = 0
      /\ (press = 7 /\ hold' = 0) => events' = << >> ]_vars

(* C13 (SpecEnc): while the encoder switch is held, mode_changed tells     *)
(* whether a rotation step or an idle-timeout reset happened since the     *)
(* press; the layer changes only in such an iteration; and the iteration   *)
(* that finds the switch released dispatches ENC_SW exactly once when the  *)
(* flag is clear and not at all when it is set, no other iteration         *)
(* dispatching ENC_SW.                                                     *)
C13_SwitchOnQuietRelease ==
  [][ /\ keyenc' => (mode_changed' <=> \/ keyenc /\ mode_changed
                                       \/ encoder_dir' # 0
                                       \/ TimeoutResets' # {})
      /\ (layer' # layer \/ transitions' # << >>) => keyenc' /\ mode_changed'
      /\ Cardinality({ i \in DOMAIN events' : events'[i] = "ENC_SW" })
           = IF keyenc /\ ~keyenc' /\ ~mode_changed THEN 1 ELSE 0 ]_vars

(* C13 witness: ENC_SW was dispatched by a release, and the bound          *)
(* character was typed.                                                    *)
C13_SwitchTyped ==
  ~keyenc /\ events = << "ENC_SW" >> /\ typed # << >>

(* C19 (SpecEnc): in every poll, whatever the two phase pins read, the     *)
(* accumulator ends in -3..3; at most one step is emitted, and at most one *)
(* Event or layer transition comes of it; a poll that emits no step adds   *)
(* the table entry of the phase change to the accumulator; a poll that     *)
(* emits a step found the sum at 4 or more in magnitude and leaves it 4    *)
(* closer to 0, with its sign.                                             *)
C19_AccumulatorBounded ==
  [][ LET v == encoder_value + encoder_factor[encoder_state + 4 * encoder_state' + 1]
      IN  /\ encoder_value' \in -3..3
          /\ encoder_dir' \in {-1, 0, 1}
          /\ Cardinality({ i \in DOMAIN events' :
                             events'[i] \in {"ENC_CW", "ENC_CCW", "ENC_SW_CW", "ENC_SW_CCW"} })
               + Cardinality(RotationSteps') <= 1
          /\ encoder_dir' = 0 => encoder_value' = v /\ v \in -3..3
          /\ encoder_dir' = -1 => v >= 4 /\ encoder_value' = v - 4
          /\ encoder_dir' = 1 => v <= -4 /\ encoder_value' = v + 4 ]_vars

(* C19 witness: a step was emitted from a sum of -5, reached by an invalid *)
(* phase change, and the accumulator kept the -1 beyond the step.          *)
C19_OvershootKept ==
  encoder_dir = 1 /\ encoder_value = -1

(* C20 (SpecEnc): with the stored max_layer = 3, a rotation step taken     *)
(* with the switch held leaves a layer in 1..3, and layer 1 when taken on  *)
(* layer 0, in both directions; an iteration with such a step and no       *)
(* idle-timeout reset ends on that layer; and an iteration ends on layer 0 *)
(* coming from another layer only with an idle-timeout reset.              *)
C20_ZeroOnlyByTimeout ==
  [][ rom_max_layer = 3 =>
        /\ \A i \in RotationSteps' :
             /\ transitions'[i].to \in 1..3
             /\ transitions'[i].from = 0 => transitions'[i].to = 1
        /\ (keyenc' /\ encoder_dir' # 0) => RotationSteps' # {}
        /\ (keyenc' /\ encoder_dir' # 0 /\ TimeoutResets' = {}) =>
             /\ layer' \in 1..3
             /\ layer = 0 => layer' = 1
        /\ (layer' = 0 /\ layer # 0) => TimeoutResets' # {} ]_vars

(* C20 witness: with max_layer = 3 the step that is added as -1 was taken  *)
(* on layer 0 with the switch held and ended on layer 1.                   *)
C20_DownFromZero ==
  /\ rom_max_layer = 3 /\ keyenc /\ encoder_dir = -1
  /\ transitions = << [dir |-> -1, from |-> 0, to |-> 1] >>
  /\ layer = 1 /\ events = << >>

(* C15 (SpecMod): resolving a binding with character 0 emits nothing; with *)
(* modifier 0xFF it emits one consumer-control type of the character and   *)
(* no keyboard call; otherwise it emits a key-down for each set modifier   *)
(* flag in the order LCtrl, LShift, LAlt, LGUI, RCtrl, RShift, RAlt, RGUI, *)
(* then one type of the character, then the key-ups of the same modifiers  *)
(* in the reverse order of the key-downs.                                  *)
C15_ModifierBracket ==
  events # << >> =>
    LET b == chars[layer][events[1]]
        n == Len(typed)
        k == Cardinality({ f \in 1..8 : Bit(b.mod, f - 1) = 1 })
    IN  /\ typed = ActionSeq(b)
        /\ b.c = 0 => n = 0
        /\ (b.c # 0 /\ b.mod = 255) => typed = << [op |-> "CON_type", code |-> b.c] >>
        /\ (b.c # 0 /\ b.mod # 255) =>
             /\ n = 2 * k + 1
             /\ typed[k + 1] = [op |-> "KBD_type", code |-> b.c]
             /\ \A i \in 1..k :
                  /\ typed[i].op = "KBD_press"
                  /\ typed[n + 1 - i] = [op |-> "KBD_release", code |-> typed[i].code]
                  /\ \E f \in 1..8 : /\ typed[i].code = ModKeys[f]
                                      /\ Bit(b.mod, f - 1) = 1
                                      /\ Cardinality({ g \in 1..f : Bit(b.mod, g - 1) = 1 }) = i

(* C15 witness: a binding with the seven modifier flags 0xFE was resolved  *)
(* into seven key-downs, the character and seven key-ups.                  *)
C15_SevenModifiers ==
  /\ events # << >>
  /\ chars[layer][events[1]].mod = 254 /\ chars[layer][events[1]].c # 0
  /\ Len(typed) = 15
  /\ typed[1].code = ModKeys[2] /\ typed[15].code = ModKeys[2]

(* C17 as stated (SpecFade): one fade step of a channel at v with rate f,  *)
(* f in 1..255, and background b leaves the channel at the larger of b and *)
(* v - f.                                                                  *)
C17_FadeIsMax ==
  [][ f_from' = IF f_from - f_by > f_min THEN f_from - f_by ELSE f_min ]_vars

(* C14 as stated (SpecHold, max_layer >= 1): once the encoder switch has   *)
(* been held for more than KNOB_HOLD iterations in a row without a         *)
(* rotation step, the iteration that sees the counter above the threshold  *)
(* included, the layer is 0, whatever happened earlier during the press.   *)
C14_IdleHoldResets ==
  (rom_max_layer >= 1 /\ idle_polls >= IdleCap) => layer = 0

(* C16 (SpecTwin): a device whose stored max_layer byte is above 3 and a   *)
(* device whose byte is 3, with the same keymap and fed the same pin       *)
(* readings, have after every iteration the same layer, have resolved the  *)
(* same Events into the same HID calls, have made the same layer           *)
(* transitions and have pushed and kept the same pixel colours.            *)
C16_ClampedAlike ==
  /\ rom_max_layer > 3
  /\ layer = twin.layer
  /\ events = twin.events /\ typed = twin.typed
  /\ transitions = twin.transitions
  /\ shown = twin.shown /\ faded = twin.faded /\ neo = twin.neo

(* C16 witness: with the byte 255 a held rotation clamped max_layer to 3   *)
(* and selected layer 2, where an Event was resolved as on the twin.       *)
C16_TypedOnLayerTwo ==
  /\ rom_max_layer = 255 /\ max_layer = 3
  /\ layer = 2 /\ twin.layer = 2
  /\ typed # << >> /\ typed = twin.typed

(* C18 (SpecGlow): every fade-rate channel of every layer is at least 1;   *)
(* after 256 iterations in a row in which no key and not the encoder       *)
(* switch is held, the mode indicator is off and the layer stays, every    *)
(* channel of every pixel equals the background channel of the current     *)
(* layer; and pixels that equal the background keep equal to it in every   *)
(* further such iteration.                                                 *)
C18_FadeSettles ==
  /\ [](\A l \in Layers, ch \in 1..3 : neofade[l][ch] >= 1)
  /\ [](quiet_polls >= 256 => \A p \in Pixels : neo[p] = neobg[layer])
  /\ [][ (QuietStep /\ \A p \in Pixels : neo[p] = neobg[layer])
           => \A p \in Pixels : shown'[p] = neobg[layer] /\ neo'[p] = neobg[layer] ]_vars

(* C18 witness: with the stored fade rate 0 decoded as 1, the pixels have  *)
(* come down from 255 to the background 0 in 256 quiet iterations.         *)
C18_SettledFromFull ==
  /\ quiet_polls = 256
  /\ neofg[layer][1] = 255 /\ neofade[layer][1] = 1 /\ neobg[layer][1] = 0
  /\ \A p \in Pixels : neo[p] = neobg[layer] /\ shown[p] = neobg[layer]

=============================================================================
